---- MODULE Spec2Model ----
(***************************************************************************)
(* Model of wuxia_crafting_optimizer.py: the state transition function     *)
(* (CraftingOptimizer.apply_skill), the terminal test, the exhaustive      *)
(* Pareto-pruned search (search_optimal), the one-step heuristic           *)
(* (greedy_search) and the lookahead planner (suggest_next_turn).          *)
(*                                                                         *)
(* Numbers: control_condition is a float multiplier in the source; it is   *)
(* carried here as a percentage (100 = 1.0), and int(x * cond) is          *)
(* (x * cond) \div 100, which is exact for the multipliers 0.5, 1.0, 1.5.  *)
(***************************************************************************)
EXTENDS Integers, Sequences, FiniteSets, TLC

VARIABLES
    optimizer,   \* CraftingOptimizer: stats and the skill catalog
    state,       \* the State a rotation is being applied to
    old,         \* print_detailed_rotation: old_qi, old_stab, old_comp, old_perf
    new_state,   \* what the last apply_skill call returned (None or a State)
    skill_key,   \* the skill key of the last apply_skill call
    cond,        \* the control_condition of the last apply_skill call
    pc,          \* position of the running procedure
    target_completion,  \* the targets handed to the running procedure
    target_perfection,
    frontier,    \* search_optimal: _Resources -> list of _Node
    q,           \* search_optimal: the FIFO work queue of (res, idx)
    best_res,    \* search_optimal: the incumbent's resource key
    best_idx,    \* search_optimal: the incumbent's index in frontier[best_res]
    result,      \* the State a search returned (None while it runs)
    control_forecast,  \* suggest_next_turn: the per-turn control multipliers
    suggestion   \* what suggest_next_turn returned (None before the call)

vars == <<optimizer, state, old, new_state, skill_key, cond, pc, target_completion,
          target_perfection, frontier, q, best_res, best_idx, result,
          control_forecast, suggestion>>

plannerVars == <<control_forecast, suggestion>>

searchVars == <<frontier, q, best_res, best_idx, result>>

rotationVars == <<state, old, new_state, skill_key, cond>>

\* ------------------------------------------------------------------ bounds
\* longest rotation handed to print_detailed_rotation / simulate_rotation
MaxRotation == 3

\* ---------------------------------------------------------------- helpers
None == [none |-> TRUE]

Min(a, b) == IF a <= b THEN a ELSE b

Max(a, b) == IF a >= b THEN a ELSE b

\* the per-turn control multipliers the forecast prompt offers: -50%, normal, +50%
Conditions == {50, 100, 150}

\* ---------------------------------------------------------------- catalog
\* the embedded default configuration's "skills" section, in dict order
DefaultSkills == <<
    [key |-> "simple_fusion", name |-> "Simple Fusion", qi_cost |-> 0,
     stability_cost |-> 10, completion_gain |-> 12, perfection_gain |-> 0,
     buff_type |-> "NONE", buff_duration |-> 0,
     prevents_max_stability_decay |-> FALSE],
    [key |-> "energised_fusion", name |-> "Energised Fusion", qi_cost |-> 10,
     stability_cost |-> 10, completion_gain |-> 21, perfection_gain |-> 0,
     buff_type |-> "NONE", buff_duration |-> 0,
     prevents_max_stability_decay |-> FALSE],
    [key |-> "cycling_fusion", name |-> "Cycling Fusion", qi_cost |-> 10,
     stability_cost |-> 10, completion_gain |-> 9, perfection_gain |-> 0,
     buff_type |-> "CONTROL", buff_duration |-> 2,
     prevents_max_stability_decay |-> FALSE],
    [key |-> "disciplined_touch", name |-> "Disciplined Touch", qi_cost |-> 10,
     stability_cost |-> 10, completion_gain |-> 0, perfection_gain |-> 0,
     buff_type |-> "NONE", buff_duration |-> 0,
     prevents_max_stability_decay |-> FALSE],
    [key |-> "cycling_refine", name |-> "Cycling Refine", qi_cost |-> 10,
     stability_cost |-> 10, completion_gain |-> 0, perfection_gain |-> 12,
     buff_type |-> "INTENSITY", buff_duration |-> 2,
     prevents_max_stability_decay |-> FALSE],
    [key |-> "simple_refine", name |-> "Simple Refine", qi_cost |-> 18,
     stability_cost |-> 10, completion_gain |-> 0, perfection_gain |-> 16,
     buff_type |-> "NONE", buff_duration |-> 0,
     prevents_max_stability_decay |-> FALSE],
    [key |-> "forceful_stabilize", name |-> "Forceful Stabilize", qi_cost |-> 88,
     stability_cost |-> -40, completion_gain |-> 0, perfection_gain |-> 0,
     buff_type |-> "NONE", buff_duration |-> 0,
     prevents_max_stability_decay |-> FALSE],
    [key |-> "instant_restoration", name |-> "Instant Restoration", qi_cost |-> 44,
     stability_cost |-> -15, completion_gain |-> 0, perfection_gain |-> 0,
     buff_type |-> "NONE", buff_duration |-> 0,
     prevents_max_stability_decay |-> FALSE] >>

\* a catalog read from a config file: the default skills, with the optional
\* prevents_max_stability_decay flag set on Instant Restoration
PreservingSkills ==
    [i \in DOMAIN DefaultSkills |->
        IF DefaultSkills[i].key = "instant_restoration"
        THEN [DefaultSkills[i] EXCEPT !.prevents_max_stability_decay = TRUE]
        ELSE DefaultSkills[i]]

\* a catalog read from a config file in which two skills grant the buff that
\* scales their own gains: Cycling Refine the control buff, Disciplined Touch
\* the intensity buff
SelfBuffingSkills ==
    [i \in DOMAIN DefaultSkills |->
        IF DefaultSkills[i].key = "cycling_refine"
        THEN [DefaultSkills[i] EXCEPT !.buff_type = "CONTROL"]
        ELSE IF DefaultSkills[i].key = "disciplined_touch"
        THEN [DefaultSkills[i] EXCEPT !.buff_type = "INTENSITY", !.buff_duration = 2]
        ELSE DefaultSkills[i]]

\* CraftingOptimizer.__init__: the optimizer built from a configuration
CraftingOptimizer(max_qi, max_stability, min_stability, base_control, base_intensity, skills) ==
    [max_qi |-> max_qi, max_stability |-> max_stability,
     base_intensity |-> base_intensity, base_control |-> base_control,
     min_stability |-> min_stability, skills |-> skills]

\* the embedded default configuration
DefaultOptimizer == CraftingOptimizer(194, 60, 10, 16, 12, DefaultSkills)

\* the keys of the catalog, as a set
SkillKeys == {optimizer.skills[i].key : i \in DOMAIN optimizer.skills}

\* self.skills[skill_key]
Skill(k) == optimizer.skills[CHOOSE i \in DOMAIN optimizer.skills : optimizer.skills[i].key = k]

\* ------------------------------------------------------------------ State
\* int(base * 1.4) in double arithmetic: the product of 45, 85 and 90 with
\* the double nearest 1.4 lies just below the integer, so int() drops one
IntTimes14(base) ==
    IF base \in {45, 85, 90} THEN (base * 14) \div 10 - 1 ELSE (base * 14) \div 10

\* State.get_control
GetControl(st, base_control) ==
    IF st.control_buff_turns > 0 THEN IntTimes14(base_control) ELSE base_control

\* State.get_intensity
GetIntensity(st, base_intensity) ==
    IF st.intensity_buff_turns > 0 THEN IntTimes14(base_intensity) ELSE base_intensity

\* the score greedy_search ranks by: progress above a target, or imbalance
\* without targets, is subtracted
GetScorePenalised(st, tc, tp) ==
    IF tc = 0 /\ tp = 0
    THEN Min(st.completion, st.perfection)
            - (Max(st.completion, st.perfection) - Min(st.completion, st.perfection)) \div 2
    ELSE Min(st.completion, tc) + Min(st.perfection, tp)
            - (Max(0, st.completion - tc) + Max(0, st.perfection - tp)) \div 2

\* State.get_score / _Node.score
GetScore(st, tc, tp) ==
    IF tc = 0 /\ tp = 0
    THEN Min(st.completion, st.perfection)
    ELSE Min(st.completion, tc) + Min(st.perfection, tp)

\* State.targets_met
TargetsMet(st, tc, tp) ==
    st.completion >= tc /\ st.perfection >= tp

\* the start state every procedure builds from the optimizer's stats
StartState ==
    [qi |-> optimizer.max_qi, stability |-> optimizer.max_stability,
     max_stability |-> optimizer.max_stability, completion |-> 0, perfection |-> 0,
     control_buff_turns |-> 0, intensity_buff_turns |-> 0, history |-> <<>>]

\* old_qi, old_stab, old_comp, old_perf as print_detailed_rotation saves them
OldOf(st) ==
    [qi |-> st.qi, stab |-> st.stability, comp |-> st.completion, perf |-> st.perfection]

\* ------------------------------------------------------------ transitions
\* the gains with the player's own base_intensity as the reference
DisciplinedTouchByBaseIntensity(st) ==
    LET intensity == GetIntensity(st, optimizer.base_intensity)
    IN  <<(6 * intensity) \div optimizer.base_intensity,
          (6 * intensity) \div optimizer.base_intensity>>

\* CraftingOptimizer.calculate_disciplined_touch
CalculateDisciplinedTouch(st) ==
    LET intensity == GetIntensity(st, optimizer.base_intensity)
    IN  <<(6 * intensity) \div 12, (6 * intensity) \div 12>>

\* the refine gains with the player's own base_control as the reference
SkillGainsByBaseControl(st, k, control_condition) ==
    IF k = "disciplined_touch" THEN CalculateDisciplinedTouch(st)
    ELSE IF k \in {"cycling_refine", "simple_refine"}
    THEN LET control == (GetControl(st, optimizer.base_control) * control_condition) \div 100
         IN  IF k = "cycling_refine"
             THEN <<0, (12 * control) \div optimizer.base_control>>
             ELSE <<0, (16 * control) \div optimizer.base_control>>
    ELSE <<Skill(k).completion_gain, Skill(k).perfection_gain>>

\* CraftingOptimizer.calculate_skill_gains
CalculateSkillGains(st, k, control_condition) ==
    IF k = "disciplined_touch" THEN CalculateDisciplinedTouch(st)
    ELSE IF k \in {"cycling_refine", "simple_refine"}
    THEN LET control == (GetControl(st, optimizer.base_control) * control_condition) \div 100
         IN  IF k = "cycling_refine"
             THEN <<0, (12 * control) \div 16>>
             ELSE <<0, (16 * control) \div 16>>
    ELSE <<Skill(k).completion_gain, Skill(k).perfection_gain>>

\* the legality checks at the head of apply_skill
QiCheckFails(st, k) == st.qi < Skill(k).qi_cost

\* the floor check against 0 instead of min_stability
StabilityCheckAgainstZero(st, k) ==
    /\ Skill(k).stability_cost > 0
    /\ st.stability - Skill(k).stability_cost < 0

\* the floor check with <= for <
StabilityCheckInclusive(st, k) ==
    /\ Skill(k).stability_cost > 0
    /\ st.stability - Skill(k).stability_cost <= optimizer.min_stability

StabilityCheckFails(st, k) ==
    /\ Skill(k).stability_cost > 0
    /\ st.stability - Skill(k).stability_cost < optimizer.min_stability

\* the clamp against the configured max_stability instead of the state's own
CapAtConfiguredMax(stability, max_stability) ==
    IF stability > optimizer.max_stability THEN optimizer.max_stability ELSE stability

\* no clamp at all
NoCapStability(stability, max_stability) == stability

\* the ceiling clamp after the costs are applied
CapStability(stability, max_stability) ==
    IF stability > max_stability THEN max_stability ELSE stability

\* a control buff that stacks: the granted duration is added to what is left
NextControlBuffStacking(st, sk) ==
    LET left == IF st.control_buff_turns > 0 THEN st.control_buff_turns - 1
                ELSE st.control_buff_turns
    IN  IF sk.buff_type = "CONTROL" THEN left + sk.buff_duration ELSE left

\* the buff counters after the decrement and the skill's own buff
NextControlBuff(st, sk) ==
    IF sk.buff_type = "CONTROL" THEN sk.buff_duration
    ELSE IF st.control_buff_turns > 0 THEN st.control_buff_turns - 1
    ELSE st.control_buff_turns

NextIntensityBuff(st, sk) ==
    IF sk.buff_type = "INTENSITY" THEN sk.buff_duration
    ELSE IF st.intensity_buff_turns > 0 THEN st.intensity_buff_turns - 1
    ELSE st.intensity_buff_turns

\* accumulators that saturate: progress beyond 40 is not counted
AddGainsSaturating(st, gains) ==
    <<Min(40, st.completion + gains[1]), Min(40, st.perfection + gains[2])>>

\* the gains assigned (=) instead of added (+=)
OverwriteGains(st, gains) == <<gains[1], gains[2]>>

\* "Apply gains": the accumulators after the gains are added
AddGains(st, gains) == <<st.completion + gains[1], st.perfection + gains[2]>>

\* the decay without its floor at 0
DecayWithoutFloor(max_stability, sk) ==
    IF sk.prevents_max_stability_decay THEN max_stability ELSE max_stability - 1

\* no decay
NoDecay(max_stability, sk) == max_stability

\* the per-turn decay of max_stability
DecayMaxStability(max_stability, sk) ==
    IF sk.prevents_max_stability_decay THEN max_stability
    ELSE Max(0, max_stability - 1)

\* apply_skill with the gains computed after the buff counters are updated
\* (calculate_skill_gains on new_state instead of state)
ApplySkillBuffsFirst(st, k, control_condition) ==
    LET sk == Skill(k) IN
    IF QiCheckFails(st, k) THEN None
    ELSE IF StabilityCheckFails(st, k) THEN None
    ELSE
        LET buffed == [st EXCEPT !.control_buff_turns = NextControlBuff(st, sk),
                                 !.intensity_buff_turns = NextIntensityBuff(st, sk)]
            gains  == AddGains(st, CalculateSkillGains(buffed, k, control_condition))
            capped == CapStability(st.stability - sk.stability_cost, st.max_stability)
            newmax == DecayMaxStability(st.max_stability, sk)
        IN  [qi |-> st.qi - sk.qi_cost,
             stability |-> IF sk.prevents_max_stability_decay THEN capped
                           ELSE CapStability(capped, newmax),
             max_stability |-> newmax,
             completion |-> gains[1],
             perfection |-> gains[2],
             control_buff_turns |-> NextControlBuff(st, sk),
             intensity_buff_turns |-> NextIntensityBuff(st, sk),
             history |-> Append(st.history, sk.name)]

\* CraftingOptimizer.apply_skill: the new State, or None
ApplySkill(st, k, control_condition) ==
    LET sk == Skill(k) IN
    IF QiCheckFails(st, k) THEN None
    ELSE IF StabilityCheckFails(st, k) THEN None
    ELSE
        LET gains  == AddGains(st, CalculateSkillGains(st, k, control_condition))
            capped == CapStability(st.stability - sk.stability_cost, st.max_stability)
            newmax == DecayMaxStability(st.max_stability, sk)
        IN  [qi |-> st.qi - sk.qi_cost,
             stability |-> IF sk.prevents_max_stability_decay THEN capped
                           ELSE CapStability(capped, newmax),
             max_stability |-> newmax,
             completion |-> gains[1],
             perfection |-> gains[2],
             control_buff_turns |-> NextControlBuff(st, sk),
             intensity_buff_turns |-> NextIntensityBuff(st, sk),
             history |-> Append(st.history, sk.name)]

\* a copy that hands the same list object to the new State (history=self.history)
CopySharingHistory(st) == [state |-> st, shares_history |-> TRUE]

\* State.copy: a new State object with the same field values; its history is
\* a new list (self.history.copy()), not the list of the original
StateCopy(st) == [state |-> st, shares_history |-> FALSE]

\* the State object handed to apply_skill, as its caller finds it after the
\* call: apply_skill assigns to the fields of the copy only (the numbers are
\* values), and appends to the copy's history list, which is the caller's
\* list when the copy shares it; the two early returns come before any write
InputAfterApply(st, k, control_condition) ==
    LET new_state_obj == StateCopy(st)
        returned      == ApplySkill(st, k, control_condition)
    IN  IF returned # None /\ new_state_obj.shares_history
        THEN [new_state_obj.state EXCEPT !.history = returned.history]
        ELSE st

\* a terminal test that looks at the qi requirement only
IsTerminalOnQi(st) ==
    \A i \in DOMAIN optimizer.skills : st.qi < optimizer.skills[i].qi_cost

\* CraftingOptimizer.is_terminal
IsTerminal(st) ==
    \A i \in DOMAIN optimizer.skills :
        LET sk == optimizer.skills[i] IN
        \/ st.qi < sk.qi_cost
        \/ (sk.stability_cost > 0 /\ st.stability - sk.stability_cost < optimizer.min_stability)

\* CraftingOptimizer.simulate_rotation: the loop from the i-th key of the
\* rotation on, and the whole call
RECURSIVE SimulateFrom(_, _, _)
SimulateFrom(st, rotation, i) ==
    IF i > Len(rotation) THEN st
    ELSE LET ns == ApplySkill(st, rotation[i], 100) IN
         IF ns = None THEN st ELSE SimulateFrom(ns, rotation, i + 1)

SimulateRotation(rotation) == SimulateFrom(StartState, rotation, 1)

\* ------------------------------------------------- rotation (the walker)
\* the configurations a rotation is run under
RotationOptimizers ==
    { DefaultOptimizer,
      CraftingOptimizer(64, 30, 10, 16, 12, DefaultSkills),
      CraftingOptimizer(194, 21, 10, 16, 12, DefaultSkills),
      CraftingOptimizer(132, 12, 10, 16, 12, DefaultSkills),
      CraftingOptimizer(194, 2, 0, 16, 12, DefaultSkills),
      CraftingOptimizer(108, 30, 10, 20, 10, PreservingSkills),
      CraftingOptimizer(64, 40, 10, 16, 12, SelfBuffingSkills) }

Init ==
    /\ optimizer \in RotationOptimizers
    /\ state = StartState
    /\ old = OldOf(StartState)
    /\ new_state = None
    /\ skill_key = "none"
    /\ cond = 100
    /\ pc = "rotation"
    /\ target_completion = 0
    /\ target_perfection = 0
    /\ frontier = <<>>
    /\ q = <<>>
    /\ best_res = None
    /\ best_idx = 0
    /\ result = None
    /\ control_forecast = <<>>
    /\ suggestion = None

\* one iteration of the loop of print_detailed_rotation (simulate_rotation
\* is the same loop with control_condition fixed at 1.0)
RotationStep(k, c) ==
    /\ pc = "rotation"
    /\ Len(state.history) < MaxRotation
    /\ old' = OldOf(state)
    /\ skill_key' = k
    /\ cond' = c
    /\ new_state' = ApplySkill(state, k, c)
    /\ IF new_state' = None
       THEN /\ pc' = "failed"
            /\ state' = state
       ELSE /\ pc' = "rotation"
            /\ state' = new_state'
    /\ UNCHANGED <<optimizer, target_completion, target_perfection, searchVars,
                   plannerVars>>

Next == \E k \in SkillKeys, c \in Conditions : RotationStep(k, c)

Spec == Init /\ [][Next]_vars

\* --------------------------------------------------------- search_optimal
\* largest stats of a searched configuration
MaxQi == 88

MaxStability == 40

\* CraftingOptimizer._Resources of a State
Resources(st) ==
    [qi |-> st.qi, stability |-> st.stability, max_stability |-> st.max_stability,
     control_buff_turns |-> st.control_buff_turns,
     intensity_buff_turns |-> st.intensity_buff_turns]

\* frontier[res][idx], idx counted from 0 as in the source
NodeAt(fr, res, idx) == fr[res][idx + 1]

\* the State search_optimal builds from a resource key and a node
StateOf(res, node, history) ==
    [qi |-> res.qi, stability |-> res.stability, max_stability |-> res.max_stability,
     completion |-> node.completion, perfection |-> node.perfection,
     control_buff_turns |-> res.control_buff_turns,
     intensity_buff_turns |-> res.intensity_buff_turns, history |-> history]

\* a dominance test that forgets the perfection axis
DominatesOnCompletion(a, b) == a.completion >= b.completion

\* a dominance test with > for >=
DominatesStrictly(a, b) == a.completion > b.completion /\ a.perfection > b.perfection

\* CraftingOptimizer._dominates
Dominates(a, b) == a.completion >= b.completion /\ a.perfection >= b.perfection

\* an insertion that drops the stored nodes the new node dominates
InsertParetoRemoving(fr, res, node) ==
    LET lst  == IF res \in DOMAIN fr THEN fr[res] ELSE <<>>
        kept == SelectSeq(lst, LAMBDA n : ~Dominates(node, n))
    IN  IF \E i \in DOMAIN lst : Dominates(lst[i], node)
        THEN [frontier |-> fr, kept |-> FALSE, idx |-> 0]
        ELSE [frontier |-> [r \in DOMAIN fr \cup {res} |->
                                IF r = res THEN Append(kept, node) ELSE fr[r]],
              kept |-> TRUE, idx |-> Len(kept)]

\* CraftingOptimizer._insert_pareto: the frontier afterwards, and the index
\* of the inserted node (kept = FALSE stands for the None it returns)
InsertPareto(fr, res, node) ==
    LET lst == IF res \in DOMAIN fr THEN fr[res] ELSE <<>> IN
    IF \E i \in DOMAIN lst : Dominates(lst[i], node)
    THEN [frontier |-> fr, kept |-> FALSE, idx |-> 0]
    ELSE [frontier |-> [r \in DOMAIN fr \cup {res} |->
                            IF r = res THEN Append(lst, node) ELSE fr[r]],
          kept |-> TRUE, idx |-> Len(lst)]

\* the walk back without the final actions.reverse()
RECURSIVE ReconstructUnreversed(_, _, _)
ReconstructUnreversed(fr, res, idx) ==
    LET node == NodeAt(fr, res, idx) IN
    IF node.action_name = "None" THEN <<>>
    ELSE IF node.prev_res = None \/ node.prev_node_idx < 0 THEN <<node.action_name>>
    ELSE <<node.action_name>> \o ReconstructUnreversed(fr, node.prev_res, node.prev_node_idx)

\* CraftingOptimizer._reconstruct_history
RECURSIVE ReconstructHistory(_, _, _)
ReconstructHistory(fr, res, idx) ==
    LET node == NodeAt(fr, res, idx) IN
    IF node.action_name = "None" THEN <<>>
    ELSE IF node.prev_res = None \/ node.prev_node_idx < 0 THEN <<node.action_name>>
    ELSE Append(ReconstructHistory(fr, node.prev_res, node.prev_node_idx), node.action_name)

\* the start key and the start node of search_optimal (None fields: the
\* string "None" for the action name, -1 for the index)
StartRes == Resources(StartState)

StartNode ==
    [completion |-> 0, perfection |-> 0, prev_res |-> None,
     prev_node_idx |-> -1, action_name |-> "None"]

TargetMode == target_completion > 0 /\ target_perfection > 0

TargetScoreCap == IF TargetMode THEN target_completion + target_perfection ELSE 0

\* the early-stop test looking at every queued node, not only the dequeued one
CapReachedInQueue(node) ==
    /\ TargetMode
    /\ \/ GetScore(node, target_completion, target_perfection) >= TargetScoreCap
       \/ \E i \in DOMAIN q :
             GetScore(frontier[q[i][1]][q[i][2] + 1], target_completion, target_perfection)
                >= TargetScoreCap

\* the early-stop test on the dequeued node
CapReached(node) ==
    TargetMode /\ GetScore(node, target_completion, target_perfection) >= TargetScoreCap

\* an incumbent replaced on an equal score as well (>= for >)
IncumbentKeepingLast(fr, res, idx, bres, bidx) ==
    IF GetScore(NodeAt(fr, res, idx), target_completion, target_perfection)
         >= GetScore(NodeAt(fr, bres, bidx), target_completion, target_perfection)
    THEN <<res, idx>>
    ELSE <<bres, bidx>>

\* the incumbent after the dequeued node (res, idx) has been compared to it
Incumbent(fr, res, idx, bres, bidx) ==
    IF GetScore(NodeAt(fr, res, idx), target_completion, target_perfection)
         > GetScore(NodeAt(fr, bres, bidx), target_completion, target_perfection)
    THEN <<res, idx>>
    ELSE <<bres, bidx>>

\* the "for skill_key in self.skills" loop of search_optimal from skill i on.
\* new_state (ns) and the outcome of _insert_pareto (ins) are each bound as
\* the element of a one-element set, which computes them once per iteration
\* as the loop does.
RECURSIVE Expand(_, _, _, _, _)
Expand(fr, qq, res, idx, i) ==
    IF i > Len(optimizer.skills) THEN <<fr, qq>>
    ELSE
        LET sk == optimizer.skills[i]
            new_node(ns) == [completion |-> ns.completion,
                             perfection |-> ns.perfection,
                             prev_res |-> res, prev_node_idx |-> idx,
                             action_name |-> sk.name]
            inserted(ns) ==
                { Expand(ins.frontier,
                         IF ins.kept THEN Append(qq, <<Resources(ns), ins.idx>>) ELSE qq,
                         res, idx, i + 1) :
                    ins \in {InsertPareto(fr, Resources(ns), new_node(ns))} }
        IN  CHOOSE e \in
                { IF ns = None THEN Expand(fr, qq, res, idx, i + 1)
                  ELSE CHOOSE e2 \in inserted(ns) : TRUE :
                    ns \in {ApplySkill(StateOf(res, NodeAt(fr, res, idx), <<>>), sk.key, 100)} } :
                TRUE

\* the configurations and targets a search is run under; with the stats of
\* the last one no skill is legal in the start state
SearchOptimizers ==
    { CraftingOptimizer(mq, ms, 10, 16, 12, DefaultSkills) :
        mq \in {MaxQi - 24, MaxQi}, ms \in {MaxStability - 10, MaxStability} }
    \cup { CraftingOptimizer(8, 12, 10, 16, 12, DefaultSkills) }

SearchTargets == { <<0, 0>>, <<12, 12>>, <<21, 16>>, <<30, 0>>, <<0, 16>>, <<100, 100>> }

InitSearch ==
    /\ optimizer \in SearchOptimizers
    /\ \E t \in SearchTargets : target_completion = t[1] /\ target_perfection = t[2]
    /\ state = StartState
    /\ old = OldOf(StartState)
    /\ new_state = None
    /\ skill_key = "none"
    /\ cond = 100
    /\ frontier = InsertPareto(<<>>, StartRes, StartNode).frontier
    /\ q = << <<StartRes, 0>> >>
    /\ best_res = StartRes
    /\ best_idx = 0
    /\ result = None
    /\ control_forecast = <<>>
    /\ suggestion = None
    /\ pc = "search"

\* one iteration of "while q" that ends in the early stop (break)
SearchStop ==
    /\ pc = "search"
    /\ q # <<>>
    /\ CapReached(NodeAt(frontier, Head(q)[1], Head(q)[2]))
    /\ best_res' = Head(q)[1]
    /\ best_idx' = Head(q)[2]
    /\ q' = Tail(q)
    /\ pc' = "return"
    /\ UNCHANGED <<optimizer, rotationVars, target_completion, target_perfection,
                   frontier, result, plannerVars>>

\* one iteration of "while q" that expands the dequeued node
SearchExpand ==
    /\ pc = "search"
    /\ q # <<>>
    /\ ~CapReached(NodeAt(frontier, Head(q)[1], Head(q)[2]))
    /\ LET res == Head(q)[1]
           idx == Head(q)[2]
           b   == Incumbent(frontier, res, idx, best_res, best_idx)
           e   == Expand(frontier, Tail(q), res, idx, 1)
       IN  /\ best_res' = b[1]
           /\ best_idx' = b[2]
           /\ frontier' = e[1]
           /\ q' = e[2]
    /\ pc' = "search"
    /\ UNCHANGED <<optimizer, rotationVars, target_completion, target_perfection, result,
                   plannerVars>>

\* the queue is empty: the loop is left
SearchExhausted ==
    /\ pc = "search"
    /\ q = <<>>
    /\ pc' = "return"
    /\ UNCHANGED <<optimizer, rotationVars, target_completion, target_perfection,
                   searchVars, plannerVars>>

\* the history is reconstructed and the State returned
SearchReturn ==
    /\ pc = "return"
    /\ result' = StateOf(best_res, NodeAt(frontier, best_res, best_idx),
                         ReconstructHistory(frontier, best_res, best_idx))
    /\ pc' = "done"
    /\ UNCHANGED <<optimizer, rotationVars, target_completion, target_perfection,
                   frontier, q, best_res, best_idx, plannerVars>>

NextSearch == SearchStop \/ SearchExpand \/ SearchExhausted \/ SearchReturn

SpecSearch == InitSearch /\ [][NextSearch]_vars

\* ---------------------------------------------------------- greedy_search
\* twice the score greedy_search ranks a successor by (the source subtracts
\* half the overshoot, or half the imbalance without targets, as a float)
GreedyScoreTimes2(ns, tc, tp) ==
    IF tc > 0 \/ tp > 0
    THEN 2 * GetScore(ns, tc, tp)
            - (Max(0, ns.completion - tc) + Max(0, ns.perfection - tp))
    ELSE 2 * GetScore(ns, 0, 0)
            - (Max(ns.completion, ns.perfection) - Min(ns.completion, ns.perfection))

\* the "for skill_key in self.skills" loop of greedy_search from skill j on:
\* best_next (None if no skill was taken) and twice best_score
RECURSIVE GreedyLoop(_, _, _, _, _, _)
GreedyLoop(st, j, best_next, best_score2, tc, tp) ==
    IF j > Len(optimizer.skills) THEN best_next
    ELSE
        LET ns == ApplySkill(st, optimizer.skills[j].key, 100) IN
        IF ns # None /\ GreedyScoreTimes2(ns, tc, tp) > best_score2
        THEN GreedyLoop(st, j + 1, ns, GreedyScoreTimes2(ns, tc, tp), tc, tp)
        ELSE GreedyLoop(st, j + 1, best_next, best_score2, tc, tp)

\* best_next of one iteration of the while loop (best_score starts at -1)
BestNext(st, tc, tp) == GreedyLoop(st, 1, None, -2, tc, tp)

\* the configurations and targets greedy_search is run under
GreedyOptimizers ==
    { DefaultOptimizer,
      CraftingOptimizer(MaxQi, MaxStability, 10, 16, 12, DefaultSkills),
      CraftingOptimizer(MaxQi - 24, MaxStability - 10, 10, 16, 12, DefaultSkills),
      CraftingOptimizer(8, MaxStability - 10, 10, 16, 12, DefaultSkills) }

GreedyTargets ==
    { <<0, 0>>, <<1, 1>>, <<6, 6>>, <<12, 12>>, <<21, 16>>, <<30, 30>>, <<60, 60>>,
      <<100, 100>> }

InitGreedy ==
    /\ optimizer \in GreedyOptimizers
    /\ \E t \in GreedyTargets : target_completion = t[1] /\ target_perfection = t[2]
    /\ state = StartState
    /\ old = OldOf(StartState)
    /\ new_state = None
    /\ skill_key = "none"
    /\ cond = 100
    /\ frontier = <<>>
    /\ q = <<>>
    /\ best_res = None
    /\ best_idx = 0
    /\ result = None
    /\ control_forecast = <<>>
    /\ suggestion = None
    /\ pc = "greedy"

\* the while condition fails: the state is terminal
GreedyTerminal ==
    /\ pc = "greedy"
    /\ IsTerminal(state)
    /\ result' = state
    /\ pc' = "returned"
    /\ UNCHANGED <<optimizer, rotationVars, target_completion, target_perfection,
                   frontier, q, best_res, best_idx, plannerVars>>

\* the first break: both targets are given and met
GreedyTargetsMet ==
    /\ pc = "greedy"
    /\ ~IsTerminal(state)
    /\ TargetMode
    /\ TargetsMet(state, target_completion, target_perfection)
    /\ result' = state
    /\ pc' = "returned"
    /\ UNCHANGED <<optimizer, rotationVars, target_completion, target_perfection,
                   frontier, q, best_res, best_idx, plannerVars>>

\* the second break: best_next is None after the loop over the skills
GreedyNoBest ==
    /\ pc = "greedy"
    /\ ~IsTerminal(state)
    /\ ~(TargetMode /\ TargetsMet(state, target_completion, target_perfection))
    /\ BestNext(state, target_completion, target_perfection) = None
    /\ result' = state
    /\ pc' = "returned"
    /\ UNCHANGED <<optimizer, rotationVars, target_completion, target_perfection,
                   frontier, q, best_res, best_idx, plannerVars>>

\* one full iteration: state = best_next
GreedyStep ==
    /\ pc = "greedy"
    /\ ~IsTerminal(state)
    /\ ~(TargetMode /\ TargetsMet(state, target_completion, target_perfection))
    /\ BestNext(state, target_completion, target_perfection) # None
    /\ old' = OldOf(state)
    /\ new_state' = BestNext(state, target_completion, target_perfection)
    /\ state' = new_state'
    /\ pc' = "greedy"
    /\ UNCHANGED <<optimizer, skill_key, cond, target_completion, target_perfection,
                   searchVars, plannerVars>>

NextGreedy == GreedyTerminal \/ GreedyTargetsMet \/ GreedyNoBest \/ GreedyStep

SpecGreedy == InitGreedy /\ [][NextGreedy]_vars

\* ------------------------------------------------------ suggest_next_turn
\* longest forecast handed to suggest_next_turn
MaxForecast == 8

\* a memo key that leaves out the accumulated completion and perfection
KeyWithoutProgress(st, i) ==
    <<st.qi, st.stability, st.control_buff_turns, st.intensity_buff_turns, i>>

\* suggest_next_turn.key: the memo key of (st, i)
Key(st, i) ==
    <<st.qi, st.stability, st.completion, st.perfection,
      st.control_buff_turns, st.intensity_buff_turns, i>>

\* memo[k] = res
MemoPut(memo, k, res) == (k :> res) @@ memo

\* suggest_next_turn.dfs, with the memo table threaded through the calls;
\* i counts from 0 as in the source. DfsLoop is the loop over the catalog
\* from skill j on.
RECURSIVE Dfs(_, _, _, _, _, _)
RECURSIVE DfsLoop(_, _, _, _, _, _, _, _, _)
\* a dfs without the test of the forecast index: past the end of the forecast
\* it goes on under the normal condition until the state is terminal
DfsPastHorizon(st, i, memo, forecast, tc, tp) ==
    LET k    == Key(st, i)
        leaf == <<GetScore(st, tc, tp), <<>>>>
        fc   == IF i >= Len(forecast) THEN forecast \o <<100>> ELSE forecast
    IN  IF k \in DOMAIN memo
        THEN [val |-> memo[k][1], plan |-> memo[k][2], memo |-> memo]
        ELSE IF tc > 0 /\ tp > 0 /\ TargetsMet(st, tc, tp)
        THEN [val |-> leaf[1], plan |-> leaf[2], memo |-> MemoPut(memo, k, leaf)]
        ELSE IF IsTerminal(st)
        THEN [val |-> leaf[1], plan |-> leaf[2], memo |-> MemoPut(memo, k, leaf)]
        ELSE
            LET l   == DfsLoop(st, i, 1, -1, <<>>, memo, fc, tc, tp)
                res == IF l.best_val < 0 THEN leaf ELSE <<l.best_val, l.best_plan>>
            IN  [val |-> res[1], plan |-> res[2], memo |-> MemoPut(l.memo, k, res)]

Dfs(st, i, memo, forecast, tc, tp) ==
    LET k    == Key(st, i)
        leaf == <<GetScore(st, tc, tp), <<>>>>
    IN  IF k \in DOMAIN memo
        THEN [val |-> memo[k][1], plan |-> memo[k][2], memo |-> memo]
        ELSE IF tc > 0 /\ tp > 0 /\ TargetsMet(st, tc, tp)
        THEN [val |-> leaf[1], plan |-> leaf[2], memo |-> MemoPut(memo, k, leaf)]
        ELSE IF i >= Len(forecast) \/ IsTerminal(st)
        THEN [val |-> leaf[1], plan |-> leaf[2], memo |-> MemoPut(memo, k, leaf)]
        ELSE
            LET l   == DfsLoop(st, i, 1, -1, <<>>, memo, forecast, tc, tp)
                res == IF l.best_val < 0 THEN leaf ELSE <<l.best_val, l.best_plan>>
            IN  [val |-> res[1], plan |-> res[2], memo |-> MemoPut(l.memo, k, res)]

\* the loop building the plan as plan + [skill_key]: the skill of this turn
\* is put behind those of the later turns
DfsLoopAppending(st, i, j, best_val, best_plan, memo, forecast, tc, tp) ==
    IF j > Len(optimizer.skills)
    THEN [best_val |-> best_val, best_plan |-> best_plan, memo |-> memo]
    ELSE
        LET sk == optimizer.skills[j]
            ns == ApplySkill(st, sk.key, forecast[i + 1])
        IN  IF ns = None
            THEN DfsLoop(st, i, j + 1, best_val, best_plan, memo, forecast, tc, tp)
            ELSE
                LET r == Dfs(ns, i + 1, memo, forecast, tc, tp) IN
                IF r.val > best_val
                THEN DfsLoop(st, i, j + 1, r.val, Append(r.plan, sk.key), r.memo,
                             forecast, tc, tp)
                ELSE DfsLoop(st, i, j + 1, best_val, best_plan, r.memo,
                             forecast, tc, tp)

\* the loop with "v >= best_val": among equal values the last skill wins
DfsLoopKeepingLast(st, i, j, best_val, best_plan, memo, forecast, tc, tp) ==
    IF j > Len(optimizer.skills)
    THEN [best_val |-> best_val, best_plan |-> best_plan, memo |-> memo]
    ELSE
        LET sk == optimizer.skills[j]
            ns == ApplySkill(st, sk.key, forecast[i + 1])
        IN  IF ns = None
            THEN DfsLoop(st, i, j + 1, best_val, best_plan, memo, forecast, tc, tp)
            ELSE
                LET r == Dfs(ns, i + 1, memo, forecast, tc, tp) IN
                IF r.val >= best_val
                THEN DfsLoop(st, i, j + 1, r.val, <<sk.key>> \o r.plan, r.memo,
                             forecast, tc, tp)
                ELSE DfsLoop(st, i, j + 1, best_val, best_plan, r.memo,
                             forecast, tc, tp)

DfsLoop(st, i, j, best_val, best_plan, memo, forecast, tc, tp) ==
    IF j > Len(optimizer.skills)
    THEN [best_val |-> best_val, best_plan |-> best_plan, memo |-> memo]
    ELSE
        LET sk == optimizer.skills[j]
            ns == ApplySkill(st, sk.key, forecast[i + 1])
        IN  IF ns = None
            THEN DfsLoop(st, i, j + 1, best_val, best_plan, memo, forecast, tc, tp)
            ELSE
                LET r == Dfs(ns, i + 1, memo, forecast, tc, tp) IN
                IF r.val > best_val
                THEN DfsLoop(st, i, j + 1, r.val, <<sk.key>> \o r.plan, r.memo,
                             forecast, tc, tp)
                ELSE DfsLoop(st, i, j + 1, best_val, best_plan, r.memo,
                             forecast, tc, tp)

\* the recursion of suggest_next_turn.dfs without the memo table: the value
\* it returns for (st, i)
RECURSIVE DfsWithoutMemo(_, _, _, _, _)
DfsWithoutMemo(st, i, forecast, tc, tp) ==
    IF tc > 0 /\ tp > 0 /\ TargetsMet(st, tc, tp) THEN GetScore(st, tc, tp)
    ELSE IF i >= Len(forecast) \/ IsTerminal(st) THEN GetScore(st, tc, tp)
    ELSE
        LET vals == { DfsWithoutMemo(ns, i + 1, forecast, tc, tp) :
                        ns \in { ApplySkill(st, optimizer.skills[j].key, forecast[i + 1]) :
                                   j \in DOMAIN optimizer.skills } \ {None} }
        IN  IF vals = {} THEN GetScore(st, tc, tp)
            ELSE CHOOSE v \in vals : \A w \in vals : w <= v

\* a planner that falls back on the first skill of the catalog when the
\* plan is empty
SuggestFirstSkillByDefault(st, forecast, tc, tp) ==
    LET f == IF forecast = <<>> THEN <<100>> ELSE forecast
        r == Dfs(st, 0, <<>>, f, tc, tp)
    IN  [best_first |-> IF r.plan # <<>> THEN r.plan[1] ELSE optimizer.skills[1].key,
         best_plan |-> r.plan,
         best_score |-> r.val]

\* suggest_next_turn: (best_first, best_plan, best_score); best_first is the
\* string "None" when the plan is empty
SuggestNextTurn(st, forecast, tc, tp) ==
    LET f == IF forecast = <<>> THEN <<100>> ELSE forecast
        r == Dfs(st, 0, <<>>, f, tc, tp)
    IN  [best_first |-> IF r.plan # <<>> THEN r.plan[1] ELSE "None",
         best_plan |-> r.plan,
         best_score |-> r.val]

\* forecasts as --forecast-control and the forecast prompt hand them over:
\* none, one turn, and four turns with changing conditions
Forecasts == { <<>>, <<100>>, <<150, 50>>, <<50, 150, 100, 100>> }

\* the forecasts of a planner run compared with the search: 1.0 throughout,
\* a short one and a long one
FlatForecasts == { [i \in 1..n |-> 100] : n \in {2, MaxForecast} }

\* main: search_optimal and suggest_next_turn on the start state, with the
\* targets both given or both left at 0
InitAgree ==
    /\ InitSearch
    /\ (target_completion > 0) = (target_perfection > 0)

\* the call of suggest_next_turn on the start state
Suggest ==
    /\ pc = "done"
    /\ \E f \in FlatForecasts :
          /\ control_forecast' = f
          /\ suggestion' = SuggestNextTurn(state, f, target_completion, target_perfection)
    /\ pc' = "suggested"
    /\ UNCHANGED <<optimizer, rotationVars, target_completion, target_perfection,
                   searchVars>>

NextAgree == NextSearch \/ Suggest

SpecAgree == InitAgree /\ [][NextAgree]_vars

\* ----------------------------------------- suggest_next_turn, turn by turn
\* the number of turns played before the planner is asked
MaxTurns == 1

\* the configurations and targets the planner is asked under
PlanOptimizers ==
    { CraftingOptimizer(MaxQi - 24, MaxStability - 10, 10, 16, 12, DefaultSkills),
      CraftingOptimizer(28, MaxStability - 10, 10, 16, 12, DefaultSkills) }

PlanTargets == { <<0, 0>>, <<12, 12>>, <<30, 0>> }

InitPlan ==
    /\ optimizer \in PlanOptimizers
    /\ \E t \in PlanTargets : target_completion = t[1] /\ target_perfection = t[2]
    /\ state = StartState
    /\ old = OldOf(StartState)
    /\ new_state = None
    /\ skill_key = "none"
    /\ cond = 100
    /\ frontier = <<>>
    /\ q = <<>>
    /\ best_res = None
    /\ best_idx = 0
    /\ result = None
    /\ control_forecast = <<>>
    /\ suggestion = None
    /\ pc = "forecast"

\* a turn of interactive_mode up to the advice: the forecast is read and
\* suggest_next_turn is called on the current state
PlanTurn(f) ==
    /\ pc = "forecast"
    /\ control_forecast' = f
    /\ suggestion' = SuggestNextTurn(state, f, target_completion, target_perfection)
    /\ pc' = "choose"
    /\ UNCHANGED <<optimizer, rotationVars, target_completion, target_perfection,
                   searchVars>>

\* the rest of the turn: the chosen skill is applied under the condition of
\* the current turn
ChooseSkill(k) ==
    /\ pc = "choose"
    /\ Len(state.history) < MaxTurns
    /\ old' = OldOf(state)
    /\ skill_key' = k
    /\ cond' = IF control_forecast = <<>> THEN 100 ELSE control_forecast[1]
    /\ new_state' = ApplySkill(state, k, cond')
    /\ IF new_state' = None
       THEN /\ pc' = "failed"
            /\ state' = state
       ELSE /\ pc' = "forecast"
            /\ state' = new_state'
    /\ UNCHANGED <<optimizer, target_completion, target_perfection, searchVars,
                   plannerVars>>

NextPlan ==
    \/ \E f \in Forecasts : PlanTurn(f)
    \/ \E k \in SkillKeys : ChooseSkill(k)

SpecPlan == InitPlan /\ [][NextPlan]_vars

\* ------------------------------------- suggest_next_turn, any catalog
\* a catalog read from a config file with one more skill: Simple Fusion's
\* costs and gains, and the flag that prevents the decay of max_stability
SteadyFusionSkills ==
    Append(DefaultSkills,
           [key |-> "steady_fusion", name |-> "Steady Fusion", qi_cost |-> 0,
            stability_cost |-> 10, completion_gain |-> 12, perfection_gain |-> 0,
            buff_type |-> "NONE", buff_duration |-> 0,
            prevents_max_stability_decay |-> TRUE])

\* configurations with that catalog
SteadyFusionOptimizers ==
    { CraftingOptimizer(44, 21, 10, 16, 12, SteadyFusionSkills),
      CraftingOptimizer(MaxQi - 24, MaxStability - 10, 10, 16, 12, SteadyFusionSkills) }

InitPlanAnyCatalog ==
    /\ optimizer \in PlanOptimizers \cup SteadyFusionOptimizers
    /\ \E t \in PlanTargets : target_completion = t[1] /\ target_perfection = t[2]
    /\ state = StartState
    /\ old = OldOf(StartState)
    /\ new_state = None
    /\ skill_key = "none"
    /\ cond = 100
    /\ frontier = <<>>
    /\ q = <<>>
    /\ best_res = None
    /\ best_idx = 0
    /\ result = None
    /\ control_forecast = <<>>
    /\ suggestion = None
    /\ pc = "forecast"

SpecPlanAnyCatalog == InitPlanAnyCatalog /\ [][NextPlan]_vars

\* ------------------------------------------- search_optimal, any catalog
\* the progress (completion + perfection) of a node up to which the work
\* loop is followed
MaxProgress == 96

\* a catalog read from a config file in which Simple Fusion costs neither qi
\* nor stability (load_config checks that the fields exist, not their values)
FreeFusionSkills ==
    [i \in DOMAIN DefaultSkills |->
        IF DefaultSkills[i].key = "simple_fusion"
        THEN [DefaultSkills[i] EXCEPT !.stability_cost = 0]
        ELSE DefaultSkills[i]]

\* configurations with that catalog; with max_qi 8 no other skill is legal
FreeFusionOptimizers ==
    { CraftingOptimizer(8, 2, 0, 16, 12, FreeFusionSkills),
      CraftingOptimizer(8, MaxStability - 10, 10, 16, 12, FreeFusionSkills) }

InitAnyCatalog ==
    /\ optimizer \in SearchOptimizers \cup FreeFusionOptimizers
    /\ \E t \in SearchTargets : target_completion = t[1] /\ target_perfection = t[2]
    /\ state = StartState
    /\ old = OldOf(StartState)
    /\ new_state = None
    /\ skill_key = "none"
    /\ cond = 100
    /\ frontier = InsertPareto(<<>>, StartRes, StartNode).frontier
    /\ q = << <<StartRes, 0>> >>
    /\ best_res = StartRes
    /\ best_idx = 0
    /\ result = None
    /\ control_forecast = <<>>
    /\ suggestion = None
    /\ pc = "search"

\* SearchExpand, followed while the dequeued node's progress is within
\* MaxProgress
SearchExpandWithin ==
    /\ q # <<>>
    /\ LET node == NodeAt(frontier, Head(q)[1], Head(q)[2])
       IN  node.completion + node.perfection <= MaxProgress
    /\ SearchExpand

NextAnyCatalog == SearchStop \/ SearchExpandWithin \/ SearchExhausted \/ SearchReturn

\* the work loop is sequential code: it takes its next step whenever it has one
SpecAnyCatalog == InitAnyCatalog /\ [][NextAnyCatalog]_vars /\ WF_vars(NextAnyCatalog)

\* ======================================================= properties
\* the successors of a state under every skill of the catalog, at
\* control_condition 1.0
Successors(st) == {ApplySkill(st, k, 100) : k \in SkillKeys} \ {None}

SetMax(S) == CHOOSE x \in S : \A y \in S : y <= x

\* the best score over every state reachable from st by successful
\* apply_skill calls, explored without any pruning
RECURSIVE BestReachable(_)
BestReachable(st) ==
    SetMax({GetScore(st, target_completion, target_perfection)}
           \cup {BestReachable(s) : s \in Successors(st)})

\* some expanded node has a legal successor that the frontier does not
\* hold: the candidate was discarded as dominated
SomeCandidatePruned ==
    \E res \in DOMAIN frontier : \E i \in DOMAIN frontier[res] :
        \E s \in Successors(StateOf(res, frontier[res][i], <<>>)) :
            \/ Resources(s) \notin DOMAIN frontier
            \/ \A j \in DOMAIN frontier[Resources(s)] :
                  LET n == frontier[Resources(s)][j] IN
                  ~(/\ n.completion = s.completion
                    /\ n.perfection = s.perfection
                    /\ n.prev_res = res
                    /\ n.prev_node_idx = i - 1)

\* C1: the State search_optimal returns has the best score of all states
\* reachable from the start state, as an exploration without Pareto pruning
\* finds it
C1_SearchIsOptimal ==
    pc = "done" =>
        GetScore(result, target_completion, target_perfection) = BestReachable(StartState)

\* a finished search that pruned candidates and returned a non-empty rotation
C1_Witness ==
    /\ pc = "done"
    /\ q = <<>>
    /\ SomeCandidatePruned
    /\ Len(result.history) >= 4
    /\ GetScore(result, target_completion, target_perfection) > 0


\* C3: from every reachable state, a skill that costs stability is either
\* rejected or leaves stability (after the cost, the ceiling clamp and the
\* decay re-clamp) at or above min_stability
C3_FloorOnCostSkills ==
    \A k \in SkillKeys, c \in Conditions :
        Skill(k).stability_cost > 0 =>
            LET ns == ApplySkill(state, k, c) IN
            ns = None \/ ns.stability >= optimizer.min_stability

\* a cost skill was accepted and left stability exactly at the floor
C3_Witness ==
    /\ new_state # None
    /\ Skill(skill_key).stability_cost > 0
    /\ old.stab = optimizer.min_stability + Skill(skill_key).stability_cost
    /\ state.stability = optimizer.min_stability

\* C4: with max_stability >= min_stability in the stats, every state reached
\* by successful apply_skill calls has stability >= min_stability
C4_StabilityNeverBelowFloor ==
    optimizer.max_stability >= optimizer.min_stability =>
        state.stability >= optimizer.min_stability

\* C5: a successful apply_skill never lowers completion or perfection
C5_AccumulatorsMonotone ==
    \A k \in SkillKeys, c \in Conditions :
        LET ns == ApplySkill(state, k, c) IN
        ns # None =>
            /\ ns.completion >= state.completion
            /\ ns.perfection >= state.perfection

\* a completion-only skill was applied to a state with perfection already > 0
C5_Witness ==
    /\ new_state # None
    /\ state.completion > old.comp
    /\ old.perf > 0
    /\ state.perfection = old.perf

\* the display names of the skills that prevent the decay of max_stability
PreservingNames ==
    {optimizer.skills[i].name : i \in {j \in DOMAIN optimizer.skills :
                                        optimizer.skills[j].prevents_max_stability_decay}}

\* C6: a successful apply_skill keeps max_stability when the skill prevents
\* the decay and otherwise sets it to max(0, max_stability - 1); after n
\* transitions without a decay-preventing skill max_stability is
\* max(0, initial - n); max_stability never increases
C6_MaxStabilityDecay ==
    /\ \A k \in SkillKeys, c \in Conditions :
          LET ns == ApplySkill(state, k, c) IN
          ns # None =>
              /\ ns.max_stability =
                    IF Skill(k).prevents_max_stability_decay
                    THEN state.max_stability
                    ELSE Max(0, state.max_stability - 1)
              /\ ns.max_stability <= state.max_stability
    /\ (\A i \in DOMAIN state.history : state.history[i] \notin PreservingNames) =>
          state.max_stability = Max(0, optimizer.max_stability - Len(state.history))

\* more decaying turns than the initial max_stability have been taken
C6_Witness ==
    /\ Len(state.history) > optimizer.max_stability
    /\ \A i \in DOMAIN state.history : state.history[i] \notin PreservingNames
    /\ state.max_stability = 0

\* C7: apply_skill returns None exactly when qi < qi_cost, or stability_cost > 0
\* and stability - stability_cost < min_stability; with min_stability 10 and
\* a cost of 10, stability 20 is accepted leaving 10 and stability 19 rejected
C7_RejectionIsTheTwoChecks ==
    \A k \in SkillKeys, c \in Conditions :
        LET ns == ApplySkill(state, k, c)
            sk == Skill(k)
        IN  /\ (ns = None) <=>
                  \/ state.qi < sk.qi_cost
                  \/ (sk.stability_cost > 0
                        /\ state.stability - sk.stability_cost < optimizer.min_stability)
            /\ (optimizer.min_stability = 10 /\ sk.stability_cost = 10
                  /\ state.qi >= sk.qi_cost) =>
                  /\ state.stability = 20 => (ns # None /\ ns.stability = 10)
                  /\ state.stability = 19 => ns = None

\* a cost-10 skill was rejected at stability 19 although qi sufficed
C7_Witness ==
    /\ pc = "failed"
    /\ new_state = None
    /\ optimizer.min_stability = 10
    /\ state.stability = 19
    /\ Skill(skill_key).stability_cost = 10
    /\ state.qi >= Skill(skill_key).qi_cost

\* C8 as stated: forceful_stabilize at stability 10 and qi >= 88 is accepted
\* and yields min(50, max_stability of the state it is applied to)
C8_RestorationClampsAtInputCeiling ==
    (state.stability = 10 /\ state.qi >= 88) =>
        \A c \in Conditions :
            LET ns == ApplySkill(state, "forceful_stabilize", c) IN
            ns # None /\ ns.stability = Min(50, state.max_stability)

\* C8 amended: forceful_stabilize at stability 10 and qi >= 88 is accepted
\* and yields min(50, max_stability after this turn's decay)
C8_RestorationClampsAtDecayedCeiling ==
    (state.stability = 10 /\ state.qi >= 88) =>
        \A c \in Conditions :
            LET ns == ApplySkill(state, "forceful_stabilize", c) IN
            /\ ns # None
            /\ ns.stability = Min(50, Max(0, state.max_stability - 1))
            /\ ns.stability = Min(50, ns.max_stability)

\* forceful_stabilize was applied at stability 10 and the ceiling clamped it
C8_Witness ==
    /\ new_state # None
    /\ skill_key = "forceful_stabilize"
    /\ old.stab = 10
    /\ old.qi >= 88
    /\ state.stability = state.max_stability
    /\ state.stability < 50

\* C9: simple_fusion on the default start state returns qi 194, stability 50,
\* max_stability 59, completion 12, perfection 0, no buffs and the history
\* ["Simple Fusion"]
C9_SimpleFusionFromStart ==
    (optimizer = DefaultOptimizer /\ state = StartState) =>
        \A c \in Conditions :
            ApplySkill(state, "simple_fusion", c) =
                [qi |-> 194, stability |-> 50, max_stability |-> 59,
                 completion |-> 12, perfection |-> 0, control_buff_turns |-> 0,
                 intensity_buff_turns |-> 0, history |-> <<"Simple Fusion">>]

\* the rotation applied simple_fusion to the default start state
C9_Witness ==
    /\ optimizer = DefaultOptimizer
    /\ skill_key = "simple_fusion"
    /\ old = OldOf(StartState)
    /\ state = new_state
    /\ state.history = <<"Simple Fusion">>

\* the dequeued node meets the cap of target mode
HeadMeetsCap ==
    /\ target_completion > 0
    /\ target_perfection > 0
    /\ GetScore(NodeAt(frontier, Head(q)[1], Head(q)[2]),
                target_completion, target_perfection)
          = target_completion + target_perfection

\* C10: in target mode the search stops at the first dequeued node whose
\* capped score is target_completion + target_perfection, without expanding
\* it, whatever is left in the queue, and returns that node; a queued node
\* that meets the cap does not stop the search before it is dequeued
C10_EarlyStopOnDequeue ==
    [][ /\ (pc = "search" /\ q # <<>> /\ HeadMeetsCap) =>
              /\ pc' = "return"
              /\ frontier' = frontier
              /\ best_res' = Head(q)[1]
              /\ best_idx' = Head(q)[2]
        /\ (pc = "search" /\ q # <<>> /\ ~HeadMeetsCap) => pc' = "search"
        /\ (pc = "return" /\ target_completion > 0 /\ target_perfection > 0
              /\ GetScore(NodeAt(frontier, best_res, best_idx),
                          target_completion, target_perfection)
                    = target_completion + target_perfection) =>
              /\ Resources(result') = best_res
              /\ result'.completion = NodeAt(frontier, best_res, best_idx).completion
              /\ result'.perfection = NodeAt(frontier, best_res, best_idx).perfection
              /\ TargetsMet(result', target_completion, target_perfection)
      ]_vars

\* the search stopped on a node that meets both targets while the queue
\* still held nodes, one of which meets the cap as well
C10_Witness ==
    /\ pc = "done"
    /\ target_completion > 0
    /\ target_perfection > 0
    /\ TargetsMet(result, target_completion, target_perfection)
    /\ \E i \in DOMAIN q :
          GetScore(NodeAt(frontier, q[i][1], q[i][2]), target_completion, target_perfection)
             = target_completion + target_perfection

\* the search goes on while a queued node, not yet dequeued, meets the cap
C10_QueuedCapWaits ==
    /\ pc = "search"
    /\ Len(q) > 1
    /\ ~HeadMeetsCap
    /\ target_completion > 0
    /\ target_perfection > 0
    /\ \E i \in DOMAIN q :
          GetScore(NodeAt(frontier, q[i][1], q[i][2]), target_completion, target_perfection)
             = target_completion + target_perfection


\* the length of the longest legal action sequence from st
RECURSIVE LongestRotation(_)
LongestRotation(st) ==
    IF Successors(st) = {} THEN 0
    ELSE 1 + SetMax({LongestRotation(s) : s \in Successors(st)})

\* C2: with targets (0, 0), the start state and a forecast of 1.0 only that
\* is at least as long as the longest legal action sequence, the score
\* suggest_next_turn returns is the score of the State search_optimal(0, 0)
\* returns
C2_PlannerAgreesWithSearch ==
    (/\ pc = "suggested"
     /\ target_completion = 0
     /\ target_perfection = 0
     /\ \A i \in DOMAIN control_forecast : control_forecast[i] = 100
     /\ Len(control_forecast) >= LongestRotation(StartState)) =>
        suggestion.best_score = GetScore(result, 0, 0)

\* both have run over the full horizon, the search has pruned, and the
\* common score is positive
C2_Witness ==
    /\ pc = "suggested"
    /\ Len(control_forecast) >= LongestRotation(StartState)
    /\ SomeCandidatePruned
    /\ suggestion.best_score = GetScore(result, 0, 0)
    /\ suggestion.best_score > 0
    /\ Len(suggestion.best_plan) >= 4

\* every skill of the catalog costs qi or stability
EverySkillCosts ==
    \A i \in DOMAIN optimizer.skills :
        optimizer.skills[i].qi_cost > 0 \/ optimizer.skills[i].stability_cost > 0

\* the node (res, idx) descends from a node stored at the resource key `key`
RECURSIVE HasAncestorAt(_, _, _, _)
HasAncestorAt(fr, res, idx, key) ==
    LET node == NodeAt(fr, res, idx) IN
    IF node.prev_node_idx < 0 THEN FALSE
    ELSE \/ node.prev_res = key
         \/ HasAncestorAt(fr, node.prev_res, node.prev_node_idx, key)

\* C11: for every catalog whose skills all have qi_cost >= 0 and any targets,
\* the work loop of search_optimal terminates, so that only finitely many
\* nodes are ever appended to the frontier. Stated as what a finite run can
\* refute: when the targets give no cap to stop at, no node is appended and
\* enqueued at the resource key of one of its own ancestors. (Legality and
\* gains depend on the resource key only, so the actions that led from the
\* ancestor to such a node lead from the node to the same key again with
\* still more progress, and so on without end.)
C11_SearchTerminates ==
    (/\ \A i \in DOMAIN optimizer.skills : optimizer.skills[i].qi_cost >= 0
     /\ ~TargetMode
     /\ pc = "search") =>
        \A k \in DOMAIN q : ~HasAncestorAt(frontier, q[k][1], q[k][2], q[k][1])

\* with a catalog in which every skill costs qi or stability, the default
\* catalog among them, every search returns
C11_CostlyCatalogTerminates == EverySkillCosts => <>(pc = "done")

\* a search over a costly catalog has ended with an empty queue, and none of
\* its nodes came up to MaxProgress
C11_CostlyCatalogEnds ==
    /\ pc = "done"
    /\ q = <<>>
    /\ EverySkillCosts
    /\ \A res \in DOMAIN frontier : \A i \in DOMAIN frontier[res] :
          frontier[res][i].completion + frontier[res][i].perfection < MaxProgress

C13_TerminalIffNoSkillApplies ==
    \A c \in Conditions :
        IsTerminal(state) <=> \A k \in SkillKeys : ApplySkill(state, k, c) = None

\* a rotation has reached a terminal state that still holds qi: the skills it
\* could pay for are rejected by the stability floor
C13_Witness ==
    /\ IsTerminal(state)
    /\ state.history # <<>>
    /\ \E k \in SkillKeys : state.qi >= Skill(k).qi_cost /\ Skill(k).qi_cost > 0
    /\ \A k \in SkillKeys : ApplySkill(state, k, 100) = None

\* CraftingOptimizer.get_skill_key_from_name
GetSkillKeyFromName(name) ==
    optimizer.skills[CHOOSE i \in DOMAIN optimizer.skills :
                        optimizer.skills[i].name = name].key

\* C14: replaying the history of the State search_optimal returns from the
\* start state with apply_skill (control_condition 1.0, one skill per
\* recorded name, in order) succeeds at every step and ends in a state with
\* the same qi, stability, max_stability, completion, perfection and buff
\* counters as the returned State
C14_HistoryReproducesResult ==
    pc = "done" =>
        LET rotation == [i \in DOMAIN result.history |-> GetSkillKeyFromName(result.history[i])]
            replayed == SimulateRotation(rotation)
        IN  /\ Len(replayed.history) = Len(result.history)
            /\ replayed.history = result.history
            /\ Resources(replayed) = Resources(result)
            /\ replayed.completion = result.completion
            /\ replayed.perfection = result.perfection

\* a search has returned a rotation of at least four turns that uses at
\* least three different skills, a buff skill among them
C14_Witness ==
    /\ pc = "done"
    /\ Len(result.history) >= 4
    /\ Cardinality({result.history[i] : i \in DOMAIN result.history}) >= 3
    /\ \E i \in DOMAIN result.history :
          result.history[i] \in {"Cycling Fusion", "Cycling Refine"}

\* the terminal states among the nodes of the frontier
TerminalFrontierStates ==
    { st \in UNION { {StateOf(res, frontier[res][i], <<>>) : i \in DOMAIN frontier[res]} :
                       res \in DOMAIN frontier } : IsTerminal(st) }

\* C15: when the start state is terminal, search_optimal returns the start
\* state with an empty history; suggest_next_turn called on a terminal state
\* returns (None, [], score(state))
C15_NoLegalActionIsNormal ==
    /\ (pc \in {"done", "suggested"} /\ IsTerminal(StartState)) => result = StartState
    /\ (pc = "suggested" /\ IsTerminal(state)) =>
          suggestion = [best_first |-> "None", best_plan |-> <<>>,
                        best_score |-> GetScore(state, target_completion, target_perfection)]
    /\ pc = "suggested" =>
          \A st \in TerminalFrontierStates, f \in Forecasts :
              SuggestNextTurn(st, f, target_completion, target_perfection)
                 = [best_first |-> "None", best_plan |-> <<>>,
                    best_score |-> GetScore(st, target_completion, target_perfection)]

\* both procedures have run on a terminal start state
C15_Witness ==
    /\ pc = "suggested"
    /\ IsTerminal(StartState)
    /\ state = StartState
    /\ result.history = <<>>
    /\ suggestion.best_plan = <<>>

\* the planner has also been asked about terminal states with a score above 0
C15_ScoredTerminalStates ==
    /\ pc = "suggested"
    /\ \E st \in TerminalFrontierStates :
          GetScore(st, target_completion, target_perfection) > 0

\* C16 as stated: for every state and every forecast, the empty one included,
\* the plan suggest_next_turn returns has at most len(forecast) actions
C16_PlanWithinForecast ==
    pc = "choose" => Len(suggestion.best_plan) <= Len(control_forecast)

\* C16 amended: the plan has at most len(forecast) actions, and at most one
\* when the forecast is empty (it is replaced by [1.0]); and dfs called at an
\* index at or past the end of the forecast returns (score(state), [])
C16_PlanWithinReplacedForecast ==
    pc = "choose" =>
        /\ Len(suggestion.best_plan) <= Max(1, Len(control_forecast))
        /\ control_forecast # <<>> =>
              Len(suggestion.best_plan) <= Len(control_forecast)
        /\ \A i \in {Len(control_forecast), Len(control_forecast) + 1} :
              LET r == Dfs(state, i, <<>>, control_forecast,
                           target_completion, target_perfection)
              IN  /\ r.val = GetScore(state, target_completion, target_perfection)
                  /\ r.plan = <<>>

\* the planner was asked with an empty forecast, one turn into the craft,
\* and has planned one action
C16_Witness ==
    /\ pc = "choose"
    /\ Len(state.history) = 1
    /\ control_forecast = <<>>
    /\ Len(suggestion.best_plan) = 1

\* the planner has filled a four-turn forecast
C16_FullPlan ==
    /\ pc = "choose"
    /\ Len(control_forecast) = 4
    /\ Len(suggestion.best_plan) = 4

\* the planner has stopped short of a four-turn forecast
C16_ShortPlan ==
    /\ pc = "choose"
    /\ Len(control_forecast) = 4
    /\ Len(suggestion.best_plan) \in 1..3

\* the values dfs obtains for the legal skills of st at forecast index i, in
\* catalog order from skill j on, the memo table passed on from one skill to
\* the next as the loop does
RECURSIVE SubtreeValues(_, _, _, _, _, _, _)
SubtreeValues(st, i, j, memo, forecast, tc, tp) ==
    IF j > Len(optimizer.skills) THEN <<>>
    ELSE
        LET sk == optimizer.skills[j]
            ns == ApplySkill(st, sk.key, forecast[i + 1])
        IN  IF ns = None THEN SubtreeValues(st, i, j + 1, memo, forecast, tc, tp)
            ELSE LET r == Dfs(ns, i + 1, memo, forecast, tc, tp)
                 IN  <<[key |-> sk.key, val |-> r.val, plan |-> r.plan]>>
                        \o SubtreeValues(st, i, j + 1, r.memo, forecast, tc, tp)

\* the first entry of vals that has the largest value
FirstBest(vals) ==
    vals[CHOOSE j \in DOMAIN vals :
            /\ \A l \in DOMAIN vals : vals[l].val <= vals[j].val
            /\ \A l \in 1..(j - 1) : vals[l].val < vals[j].val]

\* the forecast the planner works on
ForecastInUse == IF control_forecast = <<>> THEN <<100>> ELSE control_forecast

\* dfs at index i of the forecast goes through the skills of the state
DfsChooses(st, i) ==
    /\ i < Len(ForecastInUse)
    /\ ~IsTerminal(st)
    /\ ~(TargetMode /\ TargetsMet(st, target_completion, target_perfection))

\* C17: at every recursion level of suggest_next_turn, among the legal
\* skills whose subtree value equals the maximum, the one chosen for the plan
\* (and, at the top level, returned as the best first action) is the first
\* in catalog iteration order
C17_TiesKeepFirstSkill ==
    pc = "choose" =>
        /\ \A i \in 0..(Len(ForecastInUse) - 1) :
              DfsChooses(state, i) =>
                  LET r    == Dfs(state, i, <<>>, ForecastInUse,
                                  target_completion, target_perfection)
                      best == FirstBest(SubtreeValues(state, i, 1, <<>>, ForecastInUse,
                                                      target_completion, target_perfection))
                  IN  /\ r.val = best.val
                      /\ r.plan = <<best.key>> \o best.plan
        /\ DfsChooses(state, 0) =>
              suggestion.best_first
                 = FirstBest(SubtreeValues(state, 0, 1, <<>>, ForecastInUse,
                                           target_completion, target_perfection)).key

\* the planner has chosen among skills of equal value: a skill later in the
\* catalog than the one it returned has the same, largest, subtree value
C17_Witness ==
    /\ pc = "choose"
    /\ DfsChooses(state, 0)
    /\ Len(control_forecast) >= 2
    /\ suggestion.best_score > 0
    /\ LET vals == SubtreeValues(state, 0, 1, <<>>, ForecastInUse,
                                 target_completion, target_perfection)
       IN  \E j, l \in DOMAIN vals :
              /\ j < l
              /\ vals[j].key = suggestion.best_first
              /\ vals[l].val = suggestion.best_score
              /\ vals[j].val = suggestion.best_score

\* progress added to a node to obtain a node that dominates it
Leads == { <<0, 0>>, <<1, 0>>, <<0, 5>>, <<12, 16>> }

\* the state of a node with more progress at the same resource key
Ahead(res, node, lead) ==
    [StateOf(res, node, <<>>) EXCEPT !.completion = @ + lead[1],
                                     !.perfection = @ + lead[2]]

\* C18: for two nodes A and B at the same resource key with
\* A.completion >= B.completion and A.perfection >= B.perfection, and any
\* targets, the best score reachable by legal action sequences continued from
\* B is never greater than the best score reachable from A
C18_DominanceIsSound ==
    pc = "return" =>
        \A res \in DOMAIN frontier : \A j \in DOMAIN frontier[res] :
            LET b == frontier[res][j]
                fromB == BestReachable(StateOf(res, b, <<>>))
            IN  /\ \A lead \in Leads : fromB <= BestReachable(Ahead(res, b, lead))
                /\ \A l \in DOMAIN frontier[res] :
                      Dominates(frontier[res][l], b) =>
                          fromB <= BestReachable(StateOf(res, frontier[res][l], <<>>))

\* a frontier list holds a node together with a different node that
\* dominates it, and more can be reached from the dominating one
C18_Witness ==
    /\ pc = "return"
    /\ \E res \in DOMAIN frontier : \E j, l \in DOMAIN frontier[res] :
          /\ j # l
          /\ Dominates(frontier[res][l], frontier[res][j])
          /\ BestReachable(StateOf(res, frontier[res][j], <<>>))
                < BestReachable(StateOf(res, frontier[res][l], <<>>))

\* a has at least the completion and at least the perfection of b
AtLeast(a, b) == a.completion >= b.completion /\ a.perfection >= b.perfection

\* a dominates b with at least one of the two comparisons strict
StrictlyBetter(a, b) ==
    /\ a.completion >= b.completion
    /\ a.perfection >= b.perfection
    /\ (a.completion > b.completion \/ a.perfection > b.perfection)

\* C19 as stated: at every point of search_optimal, for every resource key,
\* no node stored in that key's frontier list is dominated (completion >= and
\* perfection >=, at least one strict) by another node stored in the same list
C19_NoStoredNodeDominated ==
    \A res \in DOMAIN frontier : \A j, l \in DOMAIN frontier[res] :
        j # l => ~StrictlyBetter(frontier[res][l], frontier[res][j])

\* C19 amended: no node stored in a key's list is dominated by, or equal in
\* completion and perfection to, a node stored before it in the same list
C19_NoNodeDominatedByEarlierOne ==
    \A res \in DOMAIN frontier : \A j, l \in DOMAIN frontier[res] :
        l < j => ~AtLeast(frontier[res][l], frontier[res][j])

\* a list holds two nodes of which neither dominates the other, and a node
\* that was appended after a node it dominates
C19_Witness ==
    /\ \E res \in DOMAIN frontier : \E j, l \in DOMAIN frontier[res] :
          /\ l < j
          /\ ~AtLeast(frontier[res][l], frontier[res][j])
          /\ ~AtLeast(frontier[res][j], frontier[res][l])
    /\ \E res \in DOMAIN frontier : \E j, l \in DOMAIN frontier[res] :
          /\ l < j
          /\ StrictlyBetter(frontier[res][j], frontier[res][l])

\* the length of a key's frontier list before a step (0 when the key is new)
OldLen(r) == IF r \in DOMAIN frontier THEN Len(frontier[r]) ELSE 0

\* the (key, index) pairs of the nodes a step has appended
AppendedBy(fr2) ==
    UNION { { <<r, p - 1>> : p \in (OldLen(r) + 1)..Len(fr2[r]) } : r \in DOMAIN fr2 }

\* the positions in lst, past the first `from`, of the node that skill k
\* yields from the node (res, idx) with the state s
PositionsOf(lst, from, s, res, idx, k) ==
    { p \in (from + 1)..Len(lst) :
          /\ lst[p].completion = s.completion
          /\ lst[p].perfection = s.perfection
          /\ lst[p].prev_res = res
          /\ lst[p].prev_node_idx = idx
          /\ lst[p].action_name = Skill(k).name }

\* _insert_pareto on a list holding (30, 10) keeps (20, 25) behind it, and
\* the other way round
IncomparablePairKept ==
    LET n1 == [completion |-> 30, perfection |-> 10, prev_res |-> None,
               prev_node_idx |-> -1, action_name |-> "Simple Fusion"]
        n2 == [completion |-> 20, perfection |-> 25, prev_res |-> None,
               prev_node_idx |-> -1, action_name |-> "Simple Refine"]
        a1 == InsertPareto(<<>>, StartRes, n1)
        a2 == InsertPareto(a1.frontier, StartRes, n2)
        b1 == InsertPareto(<<>>, StartRes, n2)
        b2 == InsertPareto(b1.frontier, StartRes, n1)
    IN  /\ a2.kept /\ a2.idx = 1 /\ a2.frontier[StartRes] = <<n1, n2>>
        /\ b2.kept /\ b2.idx = 1 /\ b2.frontier[StartRes] = <<n2, n1>>

\* C20: in every expansion, a candidate node is appended to its key's
\* frontier list and enqueued exactly once if and only if no node already in
\* that list has completion >= and perfection >= the candidate's (an equal
\* pair counts as dominating); existing nodes are never removed or
\* re-indexed; two nodes (30, 10) and (20, 25) at one key are both kept
C20_InsertionRule ==
    [][ (pc = "search" /\ q # <<>> /\ pc' = "search") =>
          LET res == Head(q)[1]
              idx == Head(q)[2]
              st  == StateOf(res, NodeAt(frontier, res, idx), <<>>)
          IN  /\ IncomparablePairKept
              /\ DOMAIN frontier \subseteq DOMAIN frontier'
              /\ \A r \in DOMAIN frontier :
                    /\ Len(frontier'[r]) >= Len(frontier[r])
                    /\ SubSeq(frontier'[r], 1, Len(frontier[r])) = frontier[r]
              /\ Len(q') >= Len(q) - 1
              /\ SubSeq(q', 1, Len(q) - 1) = Tail(q)
              /\ {q'[n] : n \in Len(q)..Len(q')} = AppendedBy(frontier')
              /\ Len(q') - (Len(q) - 1) = Cardinality(AppendedBy(frontier'))
              /\ \A k \in SkillKeys :
                    LET s == ApplySkill(st, k, 100) IN
                    s # None =>
                        LET r   == Resources(s)
                            lst == IF r \in DOMAIN frontier' THEN frontier'[r] ELSE <<>>
                            at  == PositionsOf(lst, OldLen(r), s, res, idx, k)
                        IN  /\ Cardinality(at) <= 1
                            /\ \A p \in at : \A m \in 1..(p - 1) : ~AtLeast(lst[m], s)
                            /\ at = {} => \E m \in DOMAIN lst : AtLeast(lst[m], s)
      ]_vars

\* a search has emptied its queue, so that every stored node was expanded; a
\* list holds two nodes of which neither dominates the other, and some
\* candidate was discarded
C20_Witness ==
    /\ pc = "done"
    /\ q = <<>>
    /\ SomeCandidatePruned
    /\ \E res \in DOMAIN frontier : \E j, l \in DOMAIN frontier[res] :
          /\ ~AtLeast(frontier[res][l], frontier[res][j])
          /\ ~AtLeast(frontier[res][j], frontier[res][l])

\* the nominal perfection gain of the two refine skills at 16 control
Nominal(k) == IF k = "cycling_refine" THEN 12 ELSE 16

\* floor(nominal * effective_control * multiplier / base_control) in exact
\* arithmetic, effective_control being base_control * 1.4 under the buff
SingleFloorGain(nominal, base, buffed, c) ==
    IF buffed THEN (nominal * base * 14 * c) \div (base * 1000)
    ELSE (nominal * base * c) \div (base * 100)

\* C21 as stated: for both refine skills, every base_control, both buff
\* states and every multiplier, the perfection gain of apply_skill is
\* floor(nominal * effective_control * multiplier / base_control), floored
\* once, and the completion gain is 0
C21_RefineGainSingleFloor ==
    \A k \in {"cycling_refine", "simple_refine"}, c \in Conditions :
        LET ns == ApplySkill(state, k, c) IN
        ns # None =>
            /\ ns.perfection - state.perfection =
                  SingleFloorGain(Nominal(k), optimizer.base_control,
                                  state.control_buff_turns > 0, c)
            /\ ns.completion = state.completion

\* C21 amended: the perfection gain is floor(nominal * control / 16) with
\* control = int(effective_control * multiplier) and effective_control =
\* int(base_control * 1.4) under the control buff, base_control otherwise;
\* the divisor is the constant 16 and each step is truncated; the completion
\* gain is 0
C21_RefineGainStepwise ==
    \A k \in {"cycling_refine", "simple_refine"}, c \in Conditions :
        LET ns        == ApplySkill(state, k, c)
            effective == IF state.control_buff_turns > 0
                         THEN IntTimes14(optimizer.base_control)
                         ELSE optimizer.base_control
            control   == (effective * c) \div 100
        IN  ns # None =>
                /\ ns.perfection - state.perfection = (Nominal(k) * control) \div 16
                /\ ns.completion = state.completion

\* Cycling Refine was applied under the control buff at multiplier 1.5 with
\* base_control 16: the gain is 24, where a single floor gives 25
C21_Witness ==
    /\ new_state # None
    /\ optimizer.base_control = 16
    /\ skill_key = "cycling_refine"
    /\ cond = 150
    /\ Len(state.history) >= 2
    /\ state.history[Len(state.history) - 1] = "Cycling Fusion"
    /\ state.perfection - old.perf = 24
    /\ SingleFloorGain(12, 16, TRUE, 150) = 25

\* floor(6 * effective_intensity / base_intensity) in exact arithmetic
IntensityRatioGain(base, buffed) ==
    IF buffed THEN (6 * base * 14) \div (base * 10) ELSE (6 * base) \div base

\* C22 as stated: for every base_intensity and both intensity-buff states,
\* disciplined_touch adds floor(6 * effective_intensity / base_intensity) to
\* completion and to perfection, whatever the control buff and the multiplier
C22_TouchGainByBaseIntensity ==
    \A c \in Conditions :
        LET ns == ApplySkill(state, "disciplined_touch", c) IN
        ns # None =>
            /\ ns.completion - state.completion =
                  IntensityRatioGain(optimizer.base_intensity, state.intensity_buff_turns > 0)
            /\ ns.perfection - state.perfection = ns.completion - state.completion

\* C22 amended: disciplined_touch adds floor(6 * effective_intensity / 12) to
\* completion and to perfection, with effective_intensity =
\* int(base_intensity * 1.4) under the intensity buff and base_intensity
\* otherwise; the divisor is the constant 12; the control buff and the
\* multiplier do not affect it
C22_TouchGainByTwelve ==
    \A c \in Conditions :
        LET ns        == ApplySkill(state, "disciplined_touch", c)
            effective == IF state.intensity_buff_turns > 0
                         THEN IntTimes14(optimizer.base_intensity)
                         ELSE optimizer.base_intensity
        IN  ns # None =>
                /\ ns.completion - state.completion = (6 * effective) \div 12
                /\ ns.perfection - state.perfection = (6 * effective) \div 12

\* Disciplined Touch was applied under the intensity buff with base_intensity
\* 10: both gains are 7, where the ratio to base_intensity gives 8
C22_Witness ==
    /\ new_state # None
    /\ optimizer.base_intensity = 10
    /\ skill_key = "disciplined_touch"
    /\ Len(state.history) >= 2
    /\ state.history[Len(state.history) - 1] = "Cycling Refine"
    /\ state.completion - old.comp = 7
    /\ state.perfection - old.perf = 7
    /\ IntensityRatioGain(10, TRUE) = 8

\* the gains of skill k at multiplier c as a function of which buffs are
\* active, and of nothing else in the state
GainsUnder(k, control_active, intensity_active, c) ==
    LET control   == IF control_active THEN IntTimes14(optimizer.base_control)
                     ELSE optimizer.base_control
        intensity == IF intensity_active THEN IntTimes14(optimizer.base_intensity)
                     ELSE optimizer.base_intensity
    IN  IF k = "disciplined_touch" THEN <<(6 * intensity) \div 12, (6 * intensity) \div 12>>
        ELSE IF k \in {"cycling_refine", "simple_refine"}
        THEN <<0, (Nominal(k) * ((control * c) \div 100)) \div 16>>
        ELSE <<Skill(k).completion_gain, Skill(k).perfection_gain>>

\* C23: the gains of apply_skill depend only on the buff counters before the
\* call: a buff the applied skill grants does not change that skill's gains,
\* and a buff whose counter is 1 before the call still applies to this call
\* although the counter is 0 afterwards
C23_GainsUsePreTransitionBuffs ==
    \A k \in SkillKeys, c \in Conditions :
        LET ns == ApplySkill(state, k, c)
            sk == Skill(k)
        IN  ns # None =>
                /\ <<ns.completion - state.completion, ns.perfection - state.perfection>>
                      = GainsUnder(k, state.control_buff_turns > 0,
                                   state.intensity_buff_turns > 0, c)
                /\ (sk.buff_type = "CONTROL" /\ state.control_buff_turns = 0) =>
                      ns.perfection - state.perfection =
                          GainsUnder(k, FALSE, state.intensity_buff_turns > 0, c)[2]
                /\ (sk.buff_type = "INTENSITY" /\ state.intensity_buff_turns = 0) =>
                      ns.completion - state.completion =
                          GainsUnder(k, state.control_buff_turns > 0, FALSE, c)[1]
                /\ (state.control_buff_turns = 1 /\ sk.buff_type # "CONTROL") =>
                      /\ ns.control_buff_turns = 0
                      /\ ns.perfection - state.perfection =
                            GainsUnder(k, TRUE, state.intensity_buff_turns > 0, c)[2]
                /\ (state.intensity_buff_turns = 1 /\ sk.buff_type # "INTENSITY") =>
                      /\ ns.intensity_buff_turns = 0
                      /\ ns.completion - state.completion =
                            GainsUnder(k, state.control_buff_turns > 0, TRUE, c)[1]

\* with a Cycling Refine that grants the control buff: it gained 12 itself,
\* and the Simple Refine two turns later, at counter 1, gained the buffed 22
\* and left the counter at 0
C23_Witness ==
    /\ optimizer.skills = SelfBuffingSkills
    /\ state.history = <<"Cycling Refine", "Simple Fusion", "Simple Refine">>
    /\ cond = 100
    /\ state.perfection = 12 + 22
    /\ state.control_buff_turns = 0

\* the catalog entry with a given display name
SkillNamed(name) ==
    optimizer.skills[CHOOSE i \in DOMAIN optimizer.skills : optimizer.skills[i].name = name]

\* what is left, after the transitions in history, of the buff of one kind:
\* the duration of its latest grant less the transitions since, floor 0
LeftOfBuff(history, kind) ==
    LET grants == {j \in DOMAIN history : SkillNamed(history[j]).buff_type = kind} IN
    IF grants = {} THEN 0
    ELSE LET last == CHOOSE j \in grants : \A l \in grants : l <= j
         IN  Max(0, SkillNamed(history[last]).buff_duration - (Len(history) - last))

\* C24: after a successful apply_skill the buff counter the skill grants is
\* exactly its buff_duration whatever the previous value, and every other
\* buff counter is max(0, previous - 1); so a buff of duration d is active
\* for exactly the next d successful transitions unless granted again
C24_BuffCounterUpdate ==
    /\ \A k \in SkillKeys, c \in Conditions :
          LET ns == ApplySkill(state, k, c)
              sk == Skill(k)
          IN  ns # None =>
                  /\ ns.control_buff_turns =
                        IF sk.buff_type = "CONTROL" THEN sk.buff_duration
                        ELSE Max(0, state.control_buff_turns - 1)
                  /\ ns.intensity_buff_turns =
                        IF sk.buff_type = "INTENSITY" THEN sk.buff_duration
                        ELSE Max(0, state.intensity_buff_turns - 1)
    /\ state.control_buff_turns = LeftOfBuff(state.history, "CONTROL")
    /\ state.intensity_buff_turns = LeftOfBuff(state.history, "INTENSITY")

\* the control buff was granted while it was still running and stands at its
\* duration, and an intensity buff granted three transitions ago has run out
C24_Witness ==
    /\ optimizer.skills = DefaultSkills
    /\ state.history = <<"Cycling Refine", "Cycling Fusion", "Cycling Fusion">>
    /\ state.control_buff_turns = 2
    /\ state.intensity_buff_turns = 0

\* C25: the memo key of the planner is sufficient: the score
\* suggest_next_turn returns is the score of the same recursion without
\* memoization, for every catalog, catalogs with a skill that prevents the
\* decay of max_stability included
C25_MemoKeyIsSufficient ==
    pc = "choose" =>
        suggestion.best_score =
            DfsWithoutMemo(state, 0, ForecastInUse, target_completion, target_perfection)

\* the resource-key fields of a State, by name
KeyFields == {"qi", "stability", "max_stability", "control_buff_turns", "intensity_buff_turns"}

\* C26: two states with the same resource key (qi, stability, max_stability,
\* both buff counters) are treated alike by apply_skill for every skill and
\* multiplier: both rejected or both accepted, and when accepted the
\* successors have the same resource key and the same completion and
\* perfection increments, whatever progress the two states have accumulated.
\* Compared are the node about to be expanded and every node stored at its key.
C26_ResourceKeyDeterminesFuture ==
    (pc = "search" /\ q # <<>>) =>
        \A j \in DOMAIN frontier[Head(q)[1]] : \A k \in SkillKeys, c \in Conditions :
            \A a \in {StateOf(Head(q)[1], NodeAt(frontier, Head(q)[1], Head(q)[2]), <<>>)} :
            \A b \in {StateOf(Head(q)[1], frontier[Head(q)[1]][j], <<>>)} :
            \A na \in {ApplySkill(a, k, c)} : \A nb \in {ApplySkill(b, k, c)} :
                /\ (na = None) <=> (nb = None)
                /\ na # None =>
                      /\ [f \in KeyFields |-> na[f]] = [f \in KeyFields |-> nb[f]]
                      /\ na.completion - a.completion = nb.completion - b.completion
                      /\ na.perfection - a.perfection = nb.perfection - b.perfection

\* the node about to be expanded shares its key, under the control buff,
\* with a node of other progress; from that key one skill is accepted and
\* another rejected
C26_Witness ==
    /\ pc = "search"
    /\ q # <<>>
    /\ Head(q)[1].control_buff_turns > 0
    /\ \E j \in DOMAIN frontier[Head(q)[1]] :
          LET a == NodeAt(frontier, Head(q)[1], Head(q)[2])
              b == frontier[Head(q)[1]][j]
          IN  /\ a.completion > b.completion
              /\ a.perfection < b.perfection
              /\ ApplySkill(StateOf(Head(q)[1], a, <<>>), "simple_refine", 150) # None
              /\ ApplySkill(StateOf(Head(q)[1], b, <<>>), "instant_restoration", 150) = None

\* C27: in every state reached from the start state by successful
\* apply_skill calls, 0 <= stability <= max_stability, max_stability being
\* the state's own, decayed, ceiling
C27_StabilityWithinBounds ==
    /\ 0 <= state.stability
    /\ state.stability <= state.max_stability
    /\ \A k \in SkillKeys, c \in Conditions :
          LET ns == ApplySkill(state, k, c) IN
          ns # None => (0 <= ns.stability /\ ns.stability <= ns.max_stability)

\* with the default catalog, a restoration after two other turns was cut
\* off at the decayed ceiling
C27_Witness ==
    /\ optimizer.skills = DefaultSkills
    /\ new_state # None
    /\ Len(state.history) = 3
    /\ skill_key = "instant_restoration"
    /\ state.stability < old.stab + 15
    /\ state.stability = state.max_stability
    /\ state.max_stability = optimizer.max_stability - 3

\* C28: greedy_search takes a legal action at every step while one exists:
\* the state it returns is terminal or, with both targets given, meets both
C28_GreedyRunsToTheEnd ==
    pc = "returned" =>
        \/ IsTerminal(result)
        \/ (TargetMode /\ TargetsMet(result, target_completion, target_perfection))

\* the states one successful apply_skill call away from a state of S, their
\* histories left out
StepFrom(S) ==
    UNION { { [ApplySkill(st, k, 100) EXCEPT !.history = <<>>] :
                k \in {l \in SkillKeys : ApplySkill(st, l, 100) # None} } : st \in S }

\* the least number of legal actions from the states of S, n actions from
\* the start, to a state that scores at least `score` (-1 if there is none)
RECURSIVE FewestActions(_, _, _)
FewestActions(S, n, score) ==
    IF S = {} THEN -1
    ELSE IF \E st \in S : GetScore(st, target_completion, target_perfection) >= score
    THEN n
    ELSE FewestActions(StepFrom(S), n + 1, score)

\* C29: the history search_optimal returns is a shortest one: no legal
\* action sequence from the start state reaches the returned score (with
\* reachable targets: meets both targets) in fewer actions, pruning
\* notwithstanding
C29_ShortestOptimalHistory ==
    pc = "done" =>
        Len(result.history) =
            FewestActions({StartState}, 0,
                          GetScore(result, target_completion, target_perfection))

\* a finished search that pruned candidates and holds a node with the
\* returned score at the end of a longer history than the one it returned
C29_Witness ==
    /\ pc = "done"
    /\ SomeCandidatePruned
    /\ Len(result.history) >= 2
    /\ \E res \in DOMAIN frontier : \E i \in DOMAIN frontier[res] :
          /\ GetScore(frontier[res][i], target_completion, target_perfection)
                = GetScore(result, target_completion, target_perfection)
          /\ Len(ReconstructHistory(frontier, res, i - 1)) > Len(result.history)

\* the plan applied from st, its i-th action under forecast[i] (i counted
\* from 1 here): the final State, or None if an action is rejected
RECURSIVE ExecutePlan(_, _, _, _)
ExecutePlan(st, plan, forecast, i) ==
    IF i > Len(plan) THEN st
    ELSE IF i > Len(forecast) THEN None
    ELSE LET ns == ApplySkill(st, plan[i], forecast[i]) IN
         IF ns = None THEN None ELSE ExecutePlan(ns, plan, forecast, i + 1)

\* C30: for a forecast of 1 to 4 multipliers, the plan suggest_next_turn
\* returns is executable from the given state, each action under its
\* forecast entry, and ends in a state whose score is the returned score;
\* the returned first action is plan[0], or None exactly when the plan is empty
C30_PlanAchievesItsScore ==
    (pc = "choose" /\ Len(control_forecast) \in 1..4) =>
        LET end == ExecutePlan(state, suggestion.best_plan, control_forecast, 1) IN
        /\ end # None
        /\ GetScore(end, target_completion, target_perfection) = suggestion.best_score
        /\ (suggestion.best_first = "None") <=> (suggestion.best_plan = <<>>)
        /\ suggestion.best_plan # <<>> => suggestion.best_first = suggestion.best_plan[1]

\* one turn into the craft, under a forecast of four changing multipliers,
\* the planner has returned a plan of at least two different skills with a
\* score above that of the current state
C30_Witness ==
    /\ pc = "choose"
    /\ Len(state.history) = 1
    /\ control_forecast = <<50, 150, 100, 100>>
    /\ Len(suggestion.best_plan) >= 2
    /\ suggestion.best_plan[1] # suggestion.best_plan[2]
    /\ suggestion.best_score > GetScore(state, target_completion, target_perfection)

====
